---- MODULE Spec2Model ----
(***************************************************************************)
(* Model of mcp_server/mcp_prompt_server.py: the task-name validator, the  *)
(* prompt catalog, the prompt loader and the tool dispatcher, run against  *)
(* a prompts directory that an external actor may change.                  *)
(*                                                                         *)
(* A Python str is a sequence of characters, each character a one-letter   *)
(* TLA+ string (the "U+..." names stand for one character each).           *)
(* A text built by an f-string is the sequence of its literal pieces (one  *)
(* element each) and of the characters of the values it interpolates.      *)
(***************************************************************************)
EXTENDS Integers, Sequences, FiniteSets, TLC

VARIABLES
    dirKind,    \* what PROMPTS_DIR is: "absent", "file" or "dir"
    files,      \* the children of PROMPTS_DIR: file name -> file state
    pc,         \* where the call_tool in flight stands: "idle", "exists", "is_file", "open"
    request,    \* the tool call in flight, or the last one handled
    accesses,   \* the filesystem calls read_prompt_content made for that call
    reply,      \* the last reply produced
    fsChanged   \* the external actor changed the filesystem since the request of `reply` began

vars == <<dirKind, files, pc, request, accesses, reply, fsChanged>>

(***************************************************************************)
(* Characters and strings                                                  *)
(***************************************************************************)

\* The printable ASCII characters in code-point order, from 32 (space) on.
AsciiFrom32 ==
    << " ", "!", "U+0022", "#", "$", "%", "&", "'", "(", ")", "*", "+", ",", "-", ".", "/",
       "0", "1", "2", "3", "4", "5", "6", "7", "8", "9", ":", ";", "<", "=", ">", "?",
       "@", "A", "B", "C", "D", "E", "F", "G", "H", "I", "J", "K", "L", "M", "N", "O",
       "P", "Q", "R", "S", "T", "U", "V", "W", "X", "Y", "Z", "[", "U+005C", "]", "^", "_",
       "U+0060", "a", "b", "c", "d", "e", "f", "g", "h", "i", "j", "k", "l", "m", "n", "o",
       "p", "q", "r", "s", "t", "u", "v", "w", "x", "y", "z", "{", "|", "}", "~" >>

\* The code point of each of them.
CodePoint ==
    [c \in {AsciiFrom32[i] : i \in 1..Len(AsciiFrom32)} |->
        31 + (CHOOSE i \in 1..Len(AsciiFrom32) : AsciiFrom32[i] = c)]

\* Python's ord(): the code point of a character.
ord(c) ==
    CASE c = "\n" -> 10
      [] c = "\r" -> 13
      [] c = "U+00E9" -> 233
      [] OTHER -> CodePoint[c]

\* Python's str < str: lexicographic by code point, a proper prefix first.
RECURSIVE StrLess(_, _)
StrLess(s, t) ==
    IF t = <<>> THEN FALSE
    ELSE IF s = <<>> THEN TRUE
    ELSE IF ord(Head(s)) # ord(Head(t)) THEN ord(Head(s)) < ord(Head(t))
    ELSE StrLess(Tail(s), Tail(t))

\* Python: sub in s.
Contains(s, sub) ==
    \E i \in 1..(Len(s) - Len(sub) + 1) : SubSeq(s, i, i + Len(sub) - 1) = sub

\* Python's s.startswith(prefix).
startswith(s, prefix) ==
    /\ Len(s) >= Len(prefix)
    /\ SubSeq(s, 1, Len(prefix)) = prefix

\* Python's s.rfind("."): the 0-based index of the last dot, -1 without one.
rfindDot(s) ==
    IF \E i \in 1..Len(s) : s[i] = "."
    THEN (CHOOSE i \in 1..Len(s) : s[i] = "." /\ \A j \in (i + 1)..Len(s) : s[j] # ".") - 1
    ELSE -1

\* Python's s.replace("_", " ").
replaceUnderscores(s) == [i \in 1..Len(s) |-> IF s[i] = "_" THEN " " ELSE s[i]]

(***************************************************************************)
(* is_safe_task_name                                                       *)
(***************************************************************************)

\* The character class [a-zA-Z0-9_] of the pattern.
InClass(c) ==
    \/ ord("a") <= ord(c) /\ ord(c) <= ord("z")
    \/ ord("A") <= ord(c) /\ ord(c) <= ord("Z")
    \/ ord("0") <= ord(c) /\ ord(c) <= ord("9")
    \/ c = "_"

\* The greedy [a-zA-Z0-9_]+ from position i: how many characters it consumes.
RECURSIVE ClassRun(_, _)
ClassRun(s, i) ==
    IF i <= Len(s) /\ InClass(s[i]) THEN 1 + ClassRun(s, i + 1) ELSE 0

\* A mutant of fullmatch: re.match, which accepts a matching prefix.
fullmatch_prefix(s) == ClassRun(s, 1) >= 1

\* re.fullmatch(r"[a-zA-Z0-9_]+", s) is not None: the run is non-empty and
\* ends where the string ends.
fullmatch(s) == ClassRun(s, 1) >= 1 /\ ClassRun(s, 1) = Len(s)

DOTDOT == <<".", ".">>

is_safe_task_name(task_name) ==
    IF task_name = <<>> THEN FALSE
    ELSE IF fullmatch(task_name) /\ ~Contains(task_name, DOTDOT) THEN TRUE
    ELSE FALSE

(***************************************************************************)
(* Python values, dicts and exceptions                                     *)
(***************************************************************************)

PyNone == [type |-> "NoneType", v |-> <<>>]
PyStr(s) == [type |-> "str", v |-> s]
\* An int, kept as its decimal digits.
PyInt(digits) == [type |-> "int", v |-> digits]

\* Python's truth value of x, as `not x` tests it.
Truthy(x) ==
    CASE x.type = "NoneType" -> FALSE
      [] x.type = "str" -> x.v # <<>>
      [] x.type = "int" -> x.v # <<"0">>

\* str(x), as an f-string interpolates x.
str(x) == IF x.type = "NoneType" THEN <<"N", "o", "n", "e">> ELSE x.v

\* A dict is the set of its <<key, value>> pairs; d.get(key) is None without the key.
dictGet(d, key) ==
    IF \E p \in d : p[1] = key THEN (CHOOSE p \in d : p[1] = key)[2] ELSE PyNone

\* How a function ends: it returns a value, or raises an exception of class cls
\* whose str() is value.
Return(value) == [raised |-> FALSE, cls |-> "", value |-> value]
Raise(cls, message) == [raised |-> TRUE, cls |-> cls, value |-> message]

\* The classes an exception class derives from, itself included. IOError is
\* Python 3's alias of OSError.
Mro(cls) ==
    CASE cls = "ValueError" -> {"ValueError", "Exception"}
      [] cls = "UnicodeDecodeError" -> {"UnicodeDecodeError", "UnicodeError", "ValueError", "Exception"}
      [] cls = "OSError" -> {"OSError", "Exception"}
      [] cls = "FileNotFoundError" -> {"FileNotFoundError", "OSError", "Exception"}
      [] cls = "IsADirectoryError" -> {"IsADirectoryError", "OSError", "Exception"}
      [] cls = "PermissionError" -> {"PermissionError", "OSError", "Exception"}
      [] cls = "TypeError" -> {"TypeError", "Exception"}
      [] OTHER -> {}

\* Whether `except bases` catches an exception of class cls.
Catches(bases, cls) == Mro(cls) \cap bases # {}

(***************************************************************************)
(* The filesystem                                                          *)
(***************************************************************************)

TXT == <<".", "t", "x", "t">>

Absent == [kind |-> "absent", readable |-> FALSE, data |-> <<>>]
Directory == [kind |-> "dir", readable |-> TRUE, data |-> <<>>]
\* A regular file the process may not read.
Unreadable == [kind |-> "file", readable |-> FALSE, data |-> <<>>]
\* A regular file and its bytes: an ASCII byte is written as its character,
\* "0xFF" is a byte no UTF-8 text contains.
RegularFile(data) == [kind |-> "file", readable |-> TRUE, data |-> data]

\* The file contents the external actor writes.
FileContents == {<<"h", "i">>, <<"h", "\r", "\n">>, <<"0xFF">>}

FileStates == {Absent, Directory, Unreadable} \cup {RegularFile(d) : d \in FileContents}

A_TXT == <<"a">> \o TXT

\* The names the children of PROMPTS_DIR may have.
FileNames ==
    { A_TXT,
      <<"b", "y", "_", "n", "a", "m", "e">> \o TXT,
      <<"a", ".", "b">> \o TXT,
      <<"B", ".", "m", "d">> }

NoFiles == [f \in FileNames |-> Absent]

\* The states the external actor puts each child in: a.txt goes through
\* every state, the other children are absent or plain text files.
FileStatesOf(f) ==
    IF f = A_TXT THEN FileStates ELSE {Absent, RegularFile(<<"h", "i">>)}

\* What PROMPTS_DIR / child is. A task name with a "/" in it names no
\* child of PROMPTS_DIR; nothing outside PROMPTS_DIR is modelled.
Lookup(child) ==
    IF dirKind = "dir" /\ child \in DOMAIN files THEN files[child] ELSE Absent

\* bytes.decode("utf-8") fails on a byte that is not UTF-8.
Decodable(data) == \A i \in 1..Len(data) : data[i] # "0xFF"

\* The text-mode read of open(path, "r"): universal newlines turn "\r\n"
\* and a lone "\r" into "\n".
RECURSIVE TranslateNewlines(_)
TranslateNewlines(data) ==
    IF data = <<>> THEN <<>>
    ELSE IF Head(data) = "\r" /\ Len(data) >= 2 /\ data[2] = "\n"
         THEN <<"\n">> \o TranslateNewlines(Tail(Tail(data)))
    ELSE IF Head(data) = "\r" THEN <<"\n">> \o TranslateNewlines(Tail(data))
    ELSE <<Head(data)>> \o TranslateNewlines(Tail(data))

(***************************************************************************)
(* get_available_prompts                                                   *)
(***************************************************************************)

\* Whether a child's name matches the glob pattern "*.txt".
GlobMatches(name) ==
    /\ Len(name) >= Len(TXT)
    /\ SubSeq(name, Len(name) - Len(TXT) + 1, Len(name)) = TXT

\* pathlib's Path.stem: the name without its last suffix; a dot that starts
\* or ends the name starts no suffix.
stem(name) ==
    LET i == rfindDot(name)
    IN  IF 0 < i /\ i < Len(name) - 1 THEN SubSeq(name, 1, i) ELSE name

\* The children PROMPTS_DIR.glob("*.txt") yields, of whatever kind.
GlobSet == {f \in FileNames : Lookup(f).kind # "absent" /\ GlobMatches(f)}

\* The orders in which the filesystem may yield them.
GlobOrders ==
    {o \in [1..Cardinality(GlobSet) -> GlobSet] :
        \A i, j \in 1..Cardinality(GlobSet) : i # j => o[i] # o[j]}

RECURSIVE Insert(_, _)
Insert(x, t) ==
    IF t = <<>> THEN <<x>>
    ELSE IF StrLess(x, Head(t)) THEN <<x>> \o t
    ELSE <<Head(t)>> \o Insert(x, Tail(t))

\* A mutant of sorted: the list is returned in the order it was built.
sorted_missing(s) == s

\* Python's sorted() on a list of str: ascending, stable.
RECURSIVE sorted(_)
sorted(s) ==
    IF s = <<>> THEN <<>>
    ELSE Insert(s[Len(s)], sorted(SubSeq(s, 1, Len(s) - 1)))

\* The loop of get_available_prompts over the children in glob order.
RECURSIVE CollectPrompts(_)
CollectPrompts(order) ==
    IF order = <<>> THEN <<>>
    ELSE LET task_name == stem(Head(order))
         IN  (IF is_safe_task_name(task_name) THEN <<task_name>> ELSE <<>>)
                 \o CollectPrompts(Tail(order))

get_available_prompts(order) ==
    IF dirKind # "dir" THEN <<>>
    ELSE sorted(CollectPrompts(order))

(***************************************************************************)
(* read_prompt_content                                                     *)
(***************************************************************************)

InvalidTaskName(task_name) == <<"Invalid task name: ">> \o task_name
PromptNotFound(task_name) == <<"Prompt not found for task: ">> \o task_name
ErrorReading(task_name) == <<"Error reading prompt file for task: ">> \o task_name

\* A mutant of ValidateTaskName: the pattern check is left out.
ValidateTaskNameSkipped(task_name) ==
    IF ~Truthy(task_name) THEN Raise("ValueError", InvalidTaskName(str(task_name)))
    ELSE Return(<<>>)

\* The validation that opens read_prompt_content: the exception it ends the
\* call with, or a plain return when the name passes. re.fullmatch raises
\* TypeError on a value that is no str.
ValidateTaskName(task_name) ==
    IF ~Truthy(task_name) THEN Raise("ValueError", InvalidTaskName(str(task_name)))
    ELSE IF task_name.type # "str"
         THEN Raise("TypeError", <<"expected string or bytes-like object, got 'int'">>)
    ELSE IF ~is_safe_task_name(task_name.v)
         THEN Raise("ValueError", InvalidTaskName(task_name.v))
    ELSE Return(<<>>)

\* prompt_file_path, as the name of a child of PROMPTS_DIR.
PromptFilePath(task_name) == task_name \o TXT

\* Path.exists() and Path.is_file().
path_exists(child) == Lookup(child).kind # "absent"
path_is_file(child) == Lookup(child).kind = "file"

\* open(path, "r", encoding="utf-8") followed by f.read().
open_read(child) ==
    LET f == Lookup(child)
    IN  CASE f.kind = "absent" -> Raise("FileNotFoundError", <<"[Errno 2] No such file or directory">>)
          [] f.kind = "dir" -> Raise("IsADirectoryError", <<"[Errno 21] Is a directory">>)
          [] f.kind = "file" /\ ~f.readable -> Raise("PermissionError", <<"[Errno 13] Permission denied">>)
          [] f.kind = "file" /\ f.readable /\ ~Decodable(f.data) ->
                Raise("UnicodeDecodeError", <<"'utf-8' codec can't decode byte 0xff in position 0: invalid start byte">>)
          [] OTHER -> Return(TranslateNewlines(f.data))

\* The try block of read_prompt_content: an IOError of the read is raised
\* again as IOError with the loader's message; anything else passes through.
ReadGuarded(task_name) ==
    LET r == open_read(PromptFilePath(task_name))
    IN  IF r.raised /\ Catches({"OSError"}, r.cls)
        THEN Raise("OSError", ErrorReading(task_name))
        ELSE r

(***************************************************************************)
(* list_tools                                                              *)
(***************************************************************************)

LIST_AVAILABLE_PROMPTS ==
    <<"l", "i", "s", "t", "_", "a", "v", "a", "i", "l", "a", "b", "l", "e", "_",
      "p", "r", "o", "m", "p", "t", "s">>
GET_PROMPT_ == <<"g", "e", "t", "_", "p", "r", "o", "m", "p", "t", "_">>
GET_PROMPT_BY_NAME == GET_PROMPT_ \o <<"b", "y", "_", "n", "a", "m", "e">>
TASK_NAME == <<"t", "a", "s", "k", "_", "n", "a", "m", "e">>

Tool(name, description, required) ==
    [name |-> name, description |-> description, required |-> required]

PromptTool(prompt_name) ==
    Tool(GET_PROMPT_ \o prompt_name,
         <<"Fetches the '">> \o prompt_name
            \o <<"' prompt template. This provides a structured template for ">>
            \o replaceUnderscores(prompt_name) \o <<" tasks.">>,
         <<>>)

list_tools(order) ==
    LET available_prompts == get_available_prompts(order)
    IN  <<Tool(LIST_AVAILABLE_PROMPTS,
               <<"Lists all available prompt templates that can be fetched. Use this to discover what prompts are available.">>,
               <<>>)>>
        \o [i \in 1..Len(available_prompts) |-> PromptTool(available_prompts[i])]
        \o <<Tool(GET_PROMPT_BY_NAME,
                  <<"Fetches a specific prompt template by its task name. Use this when you know the exact name of the prompt you want.">>,
                  <<TASK_NAME>>)>>

(***************************************************************************)
(* call_tool                                                               *)
(***************************************************************************)

TextContent(text) == [type |-> "text", text |-> text]

\* "\n".join(lines)
RECURSIVE JoinLines(_)
JoinLines(lines) ==
    IF lines = <<>> THEN <<>>
    ELSE IF Len(lines) = 1 THEN lines[1]
    ELSE lines[1] \o <<"\n">> \o JoinLines(Tail(lines))

AvailableText(available_prompts) ==
    <<"Available prompts:\n">>
        \o JoinLines([i \in 1..Len(available_prompts) |-> <<"- ">> \o available_prompts[i]])
        \o <<"\n\nUse 'get_prompt_by_name' with the task_name parameter, or use the specific 'get_prompt_[name]' tools to fetch individual prompts.">>

RequiredText == <<"Error: task_name parameter is required">>
UnknownToolText(name) == <<"Error: Unknown tool '">> \o name \o <<"'">>
PromptText(task_name, prompt_content) ==
    <<"Prompt for '">> \o task_name \o <<"':\n\n">> \o prompt_content

\* The if/elif chain of call_tool: the branch a tool name takes.
Dispatch(name) ==
    IF name = LIST_AVAILABLE_PROMPTS THEN "list"
    ELSE IF name = GET_PROMPT_BY_NAME THEN "by_name"
    ELSE IF startswith(name, GET_PROMPT_) THEN "per_resource"
    ELSE "unknown"

\* name[len("get_prompt_"):]
StripPrefix(name) == SubSeq(name, Len(GET_PROMPT_) + 1, Len(name))

\* The inner try of both fetch branches, given how read_prompt_content ended.
FetchHandler(task_name, loaded) ==
    IF ~loaded.raised THEN Return(<<TextContent(PromptText(task_name, loaded.value))>>)
    ELSE IF Catches({"ValueError", "FileNotFoundError", "OSError"}, loaded.cls)
         THEN Return(<<TextContent(<<"Error: ">> \o loaded.value)>>)
    ELSE loaded

\* The outer try of call_tool.
OuterHandler(ended) ==
    IF ended.raised /\ Catches({"Exception"}, ended.cls)
    THEN Return(<<TextContent(<<"Unexpected error: ">> \o ended.value)>>)
    ELSE ended

(***************************************************************************)
(* The state machine                                                       *)
(***************************************************************************)

NotCalled == [raised |-> FALSE, cls |-> "not called", value |-> <<>>]

Request(op, name, arguments, task_name) ==
    [op |-> op, name |-> name, arguments |-> arguments, task_name |-> task_name]

\* A reply: how the handler ended, how read_prompt_content ended inside it
\* (NotCalled when the handler did not call it) and what
\* get_available_prompts returned inside it (<<>> when it was not called).
Reply(op, ended, loaded, catalog) ==
    [op |-> op, ended |-> ended, loaded |-> loaded, catalog |-> catalog]

NoRequest == Request("none", <<>>, {}, PyNone)
NoReply == Reply("none", Return(<<>>), NotCalled, <<>>)

\* The task names and tool names the client sends.
TaskNames ==
    { <<>>,
      <<"a">>,
      <<"b", "y", "_", "n", "a", "m", "e">>,
      <<"a", ".", "b">>,
      <<"a", "!">>,
      <<".", ".", "/", "a">> }

ToolNames ==
    {LIST_AVAILABLE_PROMPTS, GET_PROMPT_BY_NAME,
     <<"g", "e", "t", "_", "p", "r", "o", "m", "p", "t">>,
     <<"b", "o", "g", "u", "s">>}
        \cup {GET_PROMPT_ \o n : n \in TaskNames}

\* The arguments dicts the client sends: empty, or with a task_name.
ArgumentsValues ==
    {{}} \cup {{<<TASK_NAME, PyStr(n)>>} : n \in TaskNames}
         \cup {{<<TASK_NAME, PyInt(<<"5">>)>>}}

Init ==
    /\ dirKind = "dir"
    /\ files = NoFiles
    /\ pc = "idle"
    /\ request = NoRequest
    /\ accesses = <<>>
    /\ reply = NoReply
    /\ fsChanged = FALSE

\* The external actor creates, removes or replaces PROMPTS_DIR itself.
EnvSetDir(kind) ==
    /\ kind # dirKind
    /\ dirKind' = kind
    /\ files' = NoFiles
    /\ fsChanged' = TRUE
    /\ UNCHANGED <<pc, request, accesses, reply>>

\* The external actor creates, removes or replaces a child of PROMPTS_DIR.
EnvSetFile(f, state) ==
    /\ dirKind = "dir"
    /\ state # files[f]
    /\ files' = [files EXCEPT ![f] = state]
    /\ fsChanged' = TRUE
    /\ UNCHANGED <<dirKind, pc, request, accesses, reply>>

\* The external actor removes a child of PROMPTS_DIR.
EnvRemove(f) ==
    /\ dirKind = "dir"
    /\ files[f] # Absent
    /\ files' = [files EXCEPT ![f] = Absent]
    /\ fsChanged' = TRUE
    /\ UNCHANGED <<dirKind, pc, request, accesses, reply>>

\* The handler list_tools.
ListTools ==
    /\ pc = "idle"
    /\ \E order \in GlobOrders :
          reply' = Reply("list_tools", Return(list_tools(order)), NotCalled,
                         get_available_prompts(order))
    /\ request' = Request("list_tools", <<>>, {}, PyNone)
    /\ accesses' = <<>>
    /\ fsChanged' = FALSE
    /\ UNCHANGED <<dirKind, files, pc>>

\* A fetch branch of call_tool ends: the two try blocks turn the way
\* read_prompt_content ended into the reply.
Finish(req, loaded) ==
    /\ pc' = "idle"
    /\ request' = req
    /\ reply' = Reply("call_tool", OuterHandler(FetchHandler(str(req.task_name), loaded)),
                      loaded, <<>>)

\* call_tool ends without calling read_prompt_content.
FinishText(req, text, catalog) ==
    /\ pc' = "idle"
    /\ request' = req
    /\ reply' = Reply("call_tool", OuterHandler(Return(<<TextContent(text)>>)),
                      NotCalled, catalog)

\* read_prompt_content begins: the name is validated before any filesystem call.
StartLoader(req) ==
    LET checked == ValidateTaskName(req.task_name)
    IN  IF checked.raised THEN Finish(req, checked)
        ELSE /\ pc' = "exists"
             /\ request' = req
             /\ reply' = NoReply

\* The handler call_tool, up to the first filesystem call of read_prompt_content.
CallTool(name, arguments) ==
    /\ pc = "idle"
    /\ accesses' = <<>>
    /\ fsChanged' = FALSE
    /\ UNCHANGED <<dirKind, files>>
    /\ LET branch == Dispatch(name)
       IN  CASE branch = "list" ->
                  \E order \in GlobOrders :
                     FinishText(Request("call_tool", name, arguments, PyNone),
                                AvailableText(get_available_prompts(order)),
                                get_available_prompts(order))
             [] branch = "by_name" ->
                  LET task_name == dictGet(arguments, TASK_NAME)
                      req == Request("call_tool", name, arguments, task_name)
                  IN  IF ~Truthy(task_name) THEN FinishText(req, RequiredText, <<>>)
                      ELSE StartLoader(req)
             [] branch = "per_resource" ->
                  StartLoader(Request("call_tool", name, arguments, PyStr(StripPrefix(name))))
             [] OTHER ->
                  FinishText(Request("call_tool", name, arguments, PyNone),
                             UnknownToolText(name), <<>>)

Access(call, child) == [call |-> call, parent |-> "PROMPTS_DIR", child |-> child]

\* read_prompt_content: prompt_file_path.exists()
StatExists ==
    /\ pc = "exists"
    /\ LET task_name == request.task_name.v
           path == PromptFilePath(task_name)
       IN  /\ accesses' = Append(accesses, Access("exists", path))
           /\ IF path_exists(path)
              THEN pc' = "is_file" /\ UNCHANGED <<request, reply>>
              ELSE Finish(request, Raise("FileNotFoundError", PromptNotFound(task_name)))
    /\ UNCHANGED <<dirKind, files, fsChanged>>

\* read_prompt_content: prompt_file_path.is_file()
StatIsFile ==
    /\ pc = "is_file"
    /\ LET task_name == request.task_name.v
           path == PromptFilePath(task_name)
       IN  /\ accesses' = Append(accesses, Access("is_file", path))
           /\ IF path_is_file(path)
              THEN pc' = "open" /\ UNCHANGED <<request, reply>>
              ELSE Finish(request, Raise("FileNotFoundError", PromptNotFound(task_name)))
    /\ UNCHANGED <<dirKind, files, fsChanged>>

\* read_prompt_content: the file is opened and read, and call_tool replies.
OpenRead ==
    /\ pc = "open"
    /\ LET task_name == request.task_name.v
       IN  /\ accesses' = Append(accesses, Access("open", PromptFilePath(task_name)))
           /\ Finish(request, ReadGuarded(task_name))
    /\ UNCHANGED <<dirKind, files, fsChanged>>

Next ==
    \/ \E kind \in {"absent", "file", "dir"} : EnvSetDir(kind)
    \/ \E f \in FileNames : \E state \in FileStatesOf(f) : EnvSetFile(f, state)
    \/ ListTools
    \/ \E name \in ToolNames, arguments \in ArgumentsValues : CallTool(name, arguments)
    \/ StatExists
    \/ StatIsFile
    \/ OpenRead

Spec == Init /\ [][Next]_vars

\* read_prompt_content run from start to end on a filesystem nobody changes
\* meanwhile: the steps StartLoader, StatExists, StatIsFile and OpenRead in a row.
read_prompt_content(task_name) ==
    LET checked == ValidateTaskName(task_name)
        path == PromptFilePath(task_name.v)
    IN  IF checked.raised THEN checked
        ELSE IF ~path_exists(path) \/ ~path_is_file(path)
             THEN Raise("FileNotFoundError", PromptNotFound(task_name.v))
        ELSE ReadGuarded(task_name.v)

\* The branch get_prompt_by_name of call_tool, likewise on a filesystem
\* nobody changes meanwhile.
FetchByName(arguments) ==
    LET task_name == dictGet(arguments, TASK_NAME)
    IN  IF ~Truthy(task_name) THEN OuterHandler(Return(<<TextContent(RequiredText)>>))
        ELSE OuterHandler(FetchHandler(str(task_name), read_prompt_content(task_name)))

(***************************************************************************)
(* The validator alone, on every short string                              *)
(***************************************************************************)

MaxLen == 3

Alphabet == {"a", "Z", "0", "_", ".", "/", "!", "\n", "U+00E9"}

Strings(n) == UNION {[1..k -> Alphabet] : k \in 0..n}

TASK_1 == <<"t", "a", "s", "k", "_", "1">>

ValidatorInputs ==
    Strings(MaxLen) \cup {<<>>, <<"a", "/", "b">>, <<"a", ".", ".", "b">>, TASK_1}

\* The validator is handed one input.
InitValidator ==
    /\ dirKind = "dir"
    /\ files = NoFiles
    /\ pc = "idle"
    /\ request \in {Request("is_safe_task_name", s, {}, PyStr(s)) : s \in ValidatorInputs}
    /\ accesses = <<>>
    /\ reply = NoReply
    /\ fsChanged = FALSE

Validate ==
    /\ request.op = "is_safe_task_name"
    /\ reply.op = "none"
    /\ reply' = Reply("is_safe_task_name", Return(is_safe_task_name(request.name)),
                      NotCalled, <<>>)
    /\ UNCHANGED <<dirKind, files, pc, request, accesses, fsChanged>>

NextValidator == Validate

SpecValidator == InitValidator /\ [][NextValidator]_vars

(***************************************************************************)
(* The server beside an actor that only removes prompt files               *)
(***************************************************************************)

InitRemoval ==
    /\ dirKind = "dir"
    /\ files \in [FileNames -> {Absent, RegularFile(<<"h", "i">>)}]
    /\ pc = "idle"
    /\ request = NoRequest
    /\ accesses = <<>>
    /\ reply = NoReply
    /\ fsChanged = FALSE

NextRemoval ==
    \/ \E f \in FileNames : EnvRemove(f)
    \/ ListTools
    \/ \E name \in ToolNames, arguments \in ArgumentsValues : CallTool(name, arguments)
    \/ StatExists
    \/ StatIsFile
    \/ OpenRead

SpecRemoval == InitRemoval /\ [][NextRemoval]_vars

(***************************************************************************)
(* The properties                                                          *)
(***************************************************************************)

\* The three failure kinds of the loader, and a reply of one text.
InvalidIdentifier(n) == Raise("ValueError", InvalidTaskName(n))
NotFound(n) == Raise("FileNotFoundError", PromptNotFound(n))
IoError(n) == Raise("OSError", ErrorReading(n))
TextReply(text) == Return(<<TextContent(text)>>)

\* The last reply is call_tool's and read_prompt_content ran for it with a str.
LoaderRan ==
    /\ reply.op = "call_tool"
    /\ reply.loaded.cls # "not called"
    /\ request.task_name.type = "str"

\* The last reply is a listing: list_tools or the tool list_available_prompts.
Listed ==
    \/ reply.op = "list_tools"
    \/ reply.op = "call_tool" /\ request.name = LIST_AVAILABLE_PROMPTS

WordCharacters ==
    {"a", "b", "c", "d", "e", "f", "g", "h", "i", "j", "k", "l", "m", "n", "o", "p", "q",
     "r", "s", "t", "u", "v", "w", "x", "y", "z",
     "A", "B", "C", "D", "E", "F", "G", "H", "I", "J", "K", "L", "M", "N", "O", "P", "Q",
     "R", "S", "T", "U", "V", "W", "X", "Y", "Z",
     "0", "1", "2", "3", "4", "5", "6", "7", "8", "9", "_"}

\* C1: is_safe_task_name(s) is true exactly when s is non-empty, every
\* character of s is a letter, a digit or an underscore, and s holds no "..";
\* it is false for "", "a/b" and "a..b" and true for "task_1".
C1_ValidatorAcceptsExactlyIdentifiers ==
    reply.op = "is_safe_task_name" =>
        LET s == request.name
            accepted == reply.ended.value
        IN  /\ accepted <=>
                  /\ s # <<>>
                  /\ \A i \in 1..Len(s) : s[i] \in WordCharacters
                  /\ ~ \E i \in 1..(Len(s) - 1) : s[i] = "." /\ s[i + 1] = "."
            /\ s \in {<<>>, <<"a", "/", "b">>, <<"a", ".", ".", "b">>} => ~accepted
            /\ s = TASK_1 => accepted

C1_Witness ==
    /\ reply.op = "is_safe_task_name"
    /\ request.name = TASK_1
    /\ reply.ended.value = TRUE

\* C2: for a name the validator rejects, read_prompt_content fails with the
\* invalid-identifier kind and makes no filesystem call; every path it ever
\* checks or opens is PROMPTS_DIR/<name>.txt for a name the validator accepts.
C2_InvalidNameNeverReachesFilesystem ==
    /\ (LoaderRan /\ ~is_safe_task_name(request.task_name.v)) =>
          /\ reply.loaded = InvalidIdentifier(request.task_name.v)
          /\ accesses = <<>>
    /\ \A i \in 1..Len(accesses) :
          /\ accesses[i].parent = "PROMPTS_DIR"
          /\ \E n \in TaskNames :
                /\ is_safe_task_name(n)
                /\ accesses[i].child = n \o TXT

C2_Witness ==
    /\ LoaderRan
    /\ Lookup(A_TXT).kind = "file"
    /\ request.task_name.v = <<".", ".", "/", "a">>
    /\ reply.loaded = InvalidIdentifier(<<".", ".", "/", "a">>)
    /\ accesses = <<>>

\* C3: every call of read_prompt_content ends in exactly one of four
\* outcomes, decided by the name and the state of the backing file: the file's
\* contents unmodified, invalid-identifier (the validator rejects the name),
\* not-found (the path is absent or no regular file) or io-error (the file
\* exists and cannot be read, or is not UTF-8).
C3_FourOutcomes ==
    (LoaderRan /\ ~fsChanged) =>
        LET n == request.task_name.v
            f == Lookup(n \o TXT)
        IN  IF ~is_safe_task_name(n) THEN reply.loaded = InvalidIdentifier(n)
            ELSE IF f.kind # "file" THEN reply.loaded = NotFound(n)
            ELSE IF ~f.readable \/ ~Decodable(f.data) THEN reply.loaded = IoError(n)
            ELSE reply.loaded = Return(f.data)

\* The ascending enumeration of a set of strings.
IsAscendingListOf(list, set) ==
    /\ {list[i] : i \in 1..Len(list)} = set
    /\ \A i \in 1..(Len(list) - 1) : StrLess(list[i], list[i + 1])

\* The base names n of the children n.txt of PROMPTS_DIR that the validator accepts.
ListableNames ==
    {n \in {SubSeq(f, 1, Len(f) - Len(TXT)) : f \in FileNames} :
        /\ (n \o TXT) \in FileNames
        /\ Lookup(n \o TXT).kind # "absent"
        /\ is_safe_task_name(n)}

\* C4: get_available_prompts never fails; it returns the empty list when
\* PROMPTS_DIR is absent or no directory, and otherwise the accepted base names
\* of the children *.txt, each once, in ascending order, whatever the order
\* in which the filesystem yields the children.
C4_CatalogIsSortedAcceptedNames ==
    (Listed /\ ~fsChanged) =>
        /\ ~reply.ended.raised
        /\ dirKind # "dir" => reply.catalog = <<>>
        /\ dirKind = "dir" => IsAscendingListOf(reply.catalog, ListableNames)

C4_Witness ==
    /\ Listed
    /\ ~fsChanged
    /\ Lookup(<<"a", ".", "b">> \o TXT).kind = "file"
    /\ Lookup(<<"B", ".", "m", "d">>).kind = "file"
    /\ reply.catalog = << <<"a">>, <<"b", "y", "_", "n", "a", "m", "e">> >>

\* The reply read_prompt_content's outcome is mapped to.
MappedText(task_name, loaded) ==
    CASE loaded = InvalidIdentifier(task_name) -> <<"Error: ">> \o InvalidTaskName(task_name)
      [] loaded = NotFound(task_name) -> <<"Error: ">> \o PromptNotFound(task_name)
      [] loaded = IoError(task_name) -> <<"Error: ">> \o ErrorReading(task_name)
      [] ~loaded.raised -> PromptText(task_name, loaded.value)
      [] OTHER -> <<"no such outcome">>

\* C5: get_prompt_by_name replies that task_name is required when it is
\* absent or empty, without calling the loader; otherwise it replies with the
\* loader's outcome mapped one to one: the three failure kinds to their three
\* messages, success to the content under its header. Stated for a task_name
\* that is absent or a str, as the tool's inputSchema declares it.
C5_FetchByNameMapsEachOutcome ==
    (/\ reply.op = "call_tool"
     /\ request.name = GET_PROMPT_BY_NAME
     /\ dictGet(request.arguments, TASK_NAME).type \in {"NoneType", "str"}) =>
        LET task_name == dictGet(request.arguments, TASK_NAME)
        IN  IF task_name.v = <<>>
            THEN reply.ended = TextReply(RequiredText) /\ reply.loaded = NotCalled
            ELSE reply.ended = TextReply(MappedText(task_name.v, reply.loaded))

\* C6: invoking "get_prompt_" + x replies what get_prompt_by_name replies
\* for task_name = x on the same filesystem.
C6_PrefixedToolEqualsFetchByName ==
    (/\ reply.op = "call_tool"
     /\ startswith(request.name, GET_PROMPT_)
     /\ ~fsChanged) =>
        reply.ended = FetchByName({<<TASK_NAME, PyStr(StripPrefix(request.name))>>})

\* C7: call_tool always returns a list of one text and raises nothing:
\* a classified failure gives its message, a tool name that is neither generic
\* nor prefixed gives "Unknown tool", any other failure raised while handling
\* gives "Unexpected error: " and its message.
C7_EveryFailureBecomesItsText ==
    reply.op = "call_tool" =>
        /\ ~reply.ended.raised
        /\ Len(reply.ended.value) = 1
        /\ reply.ended.value[1].type = "text"
        /\ Dispatch(request.name) = "unknown" =>
              reply.ended = TextReply(UnknownToolText(request.name))
        /\ reply.loaded.raised =>
              LET n == str(request.task_name)
              IN  IF reply.loaded \in {InvalidIdentifier(n), NotFound(n), IoError(n)}
                  THEN reply.ended = TextReply(<<"Error: ">> \o reply.loaded.value)
                  ELSE reply.ended = TextReply(<<"Unexpected error: ">> \o reply.loaded.value)

\* C8: every name get_available_prompts returns is backed by a regular file
\* PROMPTS_DIR/<name>.txt at the time of the scan, so that on an unchanged
\* filesystem read_prompt_content does not fail with not-found for it.
C8_ListedNamesAreRegularFiles ==
    (Listed /\ ~fsChanged) =>
        \A i \in 1..Len(reply.catalog) :
            /\ Lookup(reply.catalog[i] \o TXT).kind = "file"
            /\ read_prompt_content(PyStr(reply.catalog[i])) # NotFound(reply.catalog[i])

\* C9: for every catalog entry n, list_tools advertises exactly one tool
\* "get_prompt_" + n beside the two generic tools, the advertised names are
\* pairwise distinct, and the advertised name of n is dispatched as the
\* per-resource fetch of n.
C9_OneDistinctToolPerEntry ==
    (reply.op = "list_tools" /\ ~fsChanged) =>
        LET tools == reply.ended.value
        IN  /\ \A i, j \in 1..Len(tools) : i # j => tools[i].name # tools[j].name
            /\ \E i \in 1..Len(tools) : tools[i].name = LIST_AVAILABLE_PROMPTS
            /\ \E i \in 1..Len(tools) : tools[i].name = GET_PROMPT_BY_NAME
            /\ Len(tools) = Len(reply.catalog) + 2
            /\ \A k \in 1..Len(reply.catalog) :
                  LET n == reply.catalog[k]
                  IN  /\ Cardinality({i \in 1..Len(tools) : tools[i].name = GET_PROMPT_ \o n}) = 1
                      /\ Dispatch(GET_PROMPT_ \o n) = "per_resource"
                      /\ StripPrefix(GET_PROMPT_ \o n) = n

\* C10: beside an actor that only removes prompt files, a fetch of a valid
\* name ends with the full content or with not-found, wherever the removal
\* falls, the gap between the existence check and the open included.
C10_RemovalIsNotFound ==
    (LoaderRan /\ is_safe_task_name(request.task_name.v)) =>
        LET n == request.task_name.v
        IN  reply.ended \in
                {TextReply(PromptText(n, <<"h", "i">>)),
                 TextReply(<<"Error: ">> \o PromptNotFound(n))}

====
